---- MODULE Spec2Model ----
(***************************************************************************)
(* Model of the big-spella-go game core: the turn engine (GameEngine) and  *)
(* the session service (gameService) of internal/game/game.go, with the    *)
(* dictionary service, the word service and the persistence store as the   *)
(* capabilities they call.                                                 *)
(***************************************************************************)
EXTENDS Integers, Sequences, FiniteSets, TLC

(***************************************************************************)
(* Bounds of the model.                                                    *)
(***************************************************************************)
\* longest attempt text that is enumerated
MaxLen == 3
\* service calls made in all
MaxCalls == 3
\* most attempts of a game that is scored
MaxAttempts == 10
\* most players of a game whose points are calculated
MaxPlayerCount == 12

(***************************************************************************)
(* Program constants.                                                      *)
(***************************************************************************)
\* game.go:12
MaxHints == 3
\* game.go:13, in seconds
TurnTimeout == 10
\* capacity of gameService.eventChan
EventChanCap == 100

(***************************************************************************)
(* Text.  A string is a sequence of one-character strings.                 *)
(***************************************************************************)
Letters == {"a", "A", "b"}
Space == " "
Chars == Letters \cup {Space}

RECURSIVE StringsUpTo(_)
StringsUpTo(n) ==
    IF n = 0 THEN {<<>>}
    ELSE LET shorter == StringsUpTo(n - 1)
         IN  shorter \cup {Append(s, c) : s \in {x \in shorter : Len(x) = n - 1}, c \in Chars}

Attempts == StringsUpTo(MaxLen)

\* the words the word source and the dictionary know
WordList == {<<"A", "b">>, <<"b", "a">>}

\* sample attempt texts: a word in another case, a word as it is, a wrong text
ServiceAttempts == {<<"a", "b">>, <<"b", "a">>, <<"b">>}

\* simple case folding of one character, as strings.EqualFold applies it
FoldChar(c) == IF c = "A" THEN "a" ELSE c

\* strings.EqualFold(s, t)
EqualFold(s, t) ==
    /\ Len(s) = Len(t)
    /\ \A i \in 1..Len(s) : FoldChar(s[i]) = FoldChar(t[i])

\* strings.TrimSpace(s)
RECURSIVE TrimLeft(_)
TrimLeft(s) == IF s # <<>> /\ Head(s) = Space THEN TrimLeft(Tail(s)) ELSE s
RECURSIVE TrimRight(_)
TrimRight(s) ==
    IF s # <<>> /\ s[Len(s)] = Space THEN TrimRight(SubSeq(s, 1, Len(s) - 1)) ELSE s
TrimSpace(s) == TrimRight(TrimLeft(s))

(***************************************************************************)
(* Values.                                                                 *)
(***************************************************************************)
\* a nil *Word is the empty tuple, a set pointer the one-element tuple
NoWord == <<>>
\* a nil *time.Time
NoTime == -1

HintTypes == {"definition", "example_sentence", "etymology", "sentence",
              "part_of_speech", "pronunciation", "phonetic", "synonym"}

VARIABLES
    engine,       \* the GameEngine of the session
    now,          \* time.Now(), in seconds
    last,         \* the last engine call made by the caller: its input, its result and the engine before it
    db,           \* the session row and its players in the persistence store
    activeGames,  \* whether gameService.activeGames holds the engine of the session
    eventChan,    \* gameService.eventChan
    emitted,      \* every event sent on eventChan so far, in the order of the sends
    received,     \* the connection of each subscriber and the events it has taken from Events()
    proc,         \* the service call each goroutine is executing and its locals
    calc          \* the last call of a function of packages modes and ranking: its inputs and its result

vars == <<engine, now, last, db, activeGames, eventChan, emitted, received, proc, calc>>

(***************************************************************************)
(* DictionaryService (dictionaryService in the dictionary source).         *)
(***************************************************************************)
\* the empty string where a hint is expected
NoHint == [of |-> <<>>, content |-> ""]

\* the *Word GetWordInfo builds for a word when the lookup succeeds; a text of the entry is
\* the word it is about and the kind of text
GetWordInfo(word) ==
    [Word            |-> word,
     Definition      |-> [of |-> word, content |-> "definition"],
     ExampleSentence |-> [of |-> word, content |-> "example sentence"],
     Etymology       |-> [of |-> word, content |-> "etymology"],
     PartOfSpeech    |-> [of |-> word, content |-> "part of speech"],
     Pronunciation   |-> [of |-> word, content |-> "pronunciation"]]

\* dictionaryService.GetHint: the content and the error
DictGetHint(word, hintType) ==
    CASE hintType = "definition"     -> [hint |-> word.Definition, err |-> "nil"]
      [] hintType = "sentence"       -> [hint |-> word.ExampleSentence, err |-> "nil"]
      [] hintType = "etymology"      -> [hint |-> word.Etymology, err |-> "nil"]
      [] hintType = "part_of_speech" -> [hint |-> word.PartOfSpeech, err |-> "nil"]
      [] hintType = "pronunciation"  -> [hint |-> word.Pronunciation, err |-> "nil"]
      [] OTHER                       -> [hint |-> NoHint, err |-> "invalid hint type"]

(***************************************************************************)
(* GameEngine.  Every method is an operator from the engine (and its       *)
(* inputs) to the engine after the call, the value returned and the error. *)
(***************************************************************************)
NewGameEngine ==
    [CurrentWord |-> NoWord, WordMasked |-> FALSE, HintsUsed |-> 0, TurnStartedAt |-> NoTime]

\* what a method leaves and returns: the engine, the error, and the value returned if it
\* returns one (ok: a bool, text: a string, hint: a hint)
Result(g, err) == [g |-> g, err |-> err, ok |-> FALSE, text |-> <<>>, hint |-> NoHint]

\* time.Since(*g.TurnStartedAt)
Since(g, t) == t - g.TurnStartedAt

\* StartTurn without line 62: the hint counter of the previous turn is kept
StartTurnKeepsHints(g, info, t) ==
    IF info = <<>>
    THEN Result(g, "failed to get word info")
    ELSE Result([CurrentWord |-> info, WordMasked |-> TRUE, HintsUsed |-> g.HintsUsed,
                 TurnStartedAt |-> t], "nil")

\* info is <<>> when dict.GetWordInfo fails, <<wordInfo>> when it succeeds
StartTurn(g, info, t) ==
    IF info = <<>>
    THEN Result(g, "failed to get word info")
    ELSE Result([CurrentWord |-> info, WordMasked |-> TRUE, HintsUsed |-> 0, TurnStartedAt |-> t], "nil")

StartNewTurn(g, info, t) ==
    IF info = <<>>
    THEN Result(g, "failed to get word")
    ELSE Result([CurrentWord |-> info, WordMasked |-> TRUE, HintsUsed |-> 0, TurnStartedAt |-> t], "nil")

\* ValidateAttempt timing out at the limit already (>= for > in line 77)
ValidateAttemptAtLimit(g, attempt, t) ==
    IF g.CurrentWord = NoWord THEN Result(g, "ErrNoWordSet")
    ELSE IF g.TurnStartedAt = NoTime THEN Result(g, "ErrTurnNotActive")
    ELSE IF Since(g, t) >= TurnTimeout THEN Result(g, "turn has timed out")
    ELSE [Result(g, "nil") EXCEPT !.ok = EqualFold(attempt, g.CurrentWord[1].Word)]

ValidateAttempt(g, attempt, t) ==
    IF g.CurrentWord = NoWord THEN Result(g, "ErrNoWordSet")
    ELSE IF g.TurnStartedAt = NoTime THEN Result(g, "ErrTurnNotActive")
    ELSE IF Since(g, t) > TurnTimeout THEN Result(g, "turn has timed out")
    ELSE [Result(g, "nil") EXCEPT !.ok = EqualFold(attempt, g.CurrentWord[1].Word)]

\* GetHint refusing one request too late (> for >= in line 89)
GetHintOneMore(g, hintType) ==
    IF g.CurrentWord = NoWord THEN Result(g, "ErrNoWordSet")
    ELSE IF g.HintsUsed > MaxHints THEN Result(g, "ErrMaxHintsUsed")
    ELSE LET got == DictGetHint(g.CurrentWord[1], hintType)
         IN  IF got.err # "nil"
             THEN Result(g, "failed to get hint")
             ELSE [Result([g EXCEPT !.HintsUsed = @ + 1], "nil") EXCEPT !.hint = got.hint]

\* GetHint counting the request before the dictionary answers (line 98 moved above line 93)
GetHintCountsFirst(g, hintType) ==
    IF g.CurrentWord = NoWord THEN Result(g, "ErrNoWordSet")
    ELSE IF g.HintsUsed >= MaxHints THEN Result(g, "ErrMaxHintsUsed")
    ELSE LET got  == DictGetHint(g.CurrentWord[1], hintType)
             used == [g EXCEPT !.HintsUsed = @ + 1]
         IN  IF got.err # "nil"
             THEN Result(used, "failed to get hint")
             ELSE [Result(used, "nil") EXCEPT !.hint = got.hint]

\* GetHint revealing the word with the hint it grants
GetHintRevealsWord(g, hintType) ==
    IF g.CurrentWord = NoWord THEN Result(g, "ErrNoWordSet")
    ELSE IF g.HintsUsed >= MaxHints THEN Result(g, "ErrMaxHintsUsed")
    ELSE LET got == DictGetHint(g.CurrentWord[1], hintType)
         IN  IF got.err # "nil"
             THEN Result(g, "failed to get hint")
             ELSE [Result([g EXCEPT !.HintsUsed = @ + 1, !.WordMasked = FALSE], "nil")
                      EXCEPT !.hint = got.hint]

GetHint(g, hintType) ==
    IF g.CurrentWord = NoWord THEN Result(g, "ErrNoWordSet")
    ELSE IF g.HintsUsed >= MaxHints THEN Result(g, "ErrMaxHintsUsed")
    ELSE LET got == DictGetHint(g.CurrentWord[1], hintType)
         IN  IF got.err # "nil"
             THEN Result(g, "failed to get hint")
             ELSE [Result([g EXCEPT !.HintsUsed = @ + 1], "nil") EXCEPT !.hint = got.hint]

CheckTimeLimit(g, t) ==
    IF g.TurnStartedAt = NoTime THEN Result(g, "nil")
    ELSE [Result(g, "nil") EXCEPT !.ok = (Since(g, t) <= TurnTimeout)]

\* RevealWord flipping the flag instead of clearing it
RevealWordToggles(g) ==
    IF g.CurrentWord = NoWord THEN Result(g, "ErrNoWordSet")
    ELSE Result([g EXCEPT !.WordMasked = ~@], "nil")

RevealWord(g) ==
    IF g.CurrentWord = NoWord THEN Result(g, "ErrNoWordSet")
    ELSE Result([g EXCEPT !.WordMasked = FALSE], "nil")

UnmaskWord(g) ==
    IF g.CurrentWord = NoWord THEN Result(g, "nil")
    ELSE [Result([g EXCEPT !.WordMasked = FALSE], "nil") EXCEPT !.text = g.CurrentWord[1].Word]

\* the hints RequestHint returns are fixed texts
SampleHint(content) == [of |-> <<>>, content |-> content]

RequestHint(g, hintType) ==
    IF g.CurrentWord = NoWord THEN Result(g, "no word is currently active")
    ELSE CASE hintType = "definition" ->
                [Result(g, "nil") EXCEPT !.hint = SampleHint("Sample definition hint")]
           [] hintType = "phonetic" ->
                [Result(g, "nil") EXCEPT !.hint = SampleHint("Sample phonetic hint")]
           [] hintType = "synonym" ->
                [Result(g, "nil") EXCEPT !.hint = SampleHint("Sample synonym hint")]
           [] OTHER -> Result(g, "unsupported hint type")

(***************************************************************************)
(* The engine driven directly by one caller, one call at a time.           *)
(***************************************************************************)
NoCall ==
    [op |-> "none", text |-> <<>>, hintType |-> "", res |-> Result(NewGameEngine, "nil"),
     pre |-> NewGameEngine, at |-> 0]

\* the record of a call: its method, the text or the hint type passed, the engine before
\* it, the instant and the result
CallRecord(op, text, hintType, res) ==
    [op |-> op, text |-> text, hintType |-> hintType, res |-> res, pre |-> engine, at |-> now]

\* what dict.GetWordInfo may answer for a word: a failure or the word's entry
WordInfoAnswers(word) == {<<>>, <<GetWordInfo(word)>>}

CallStartTurn ==
    \E word \in WordList : \E info \in WordInfoAnswers(word) :
        LET res == StartTurn(engine, info, now)
        IN  /\ engine' = res.g
            /\ last' = CallRecord("StartTurn", word, "", res)
            /\ UNCHANGED <<now, db, activeGames, eventChan, emitted, received, proc, calc>>

CallStartNewTurn ==
    \E info \in WordInfoAnswers(<<>>) :
        LET res == StartNewTurn(engine, info, now)
        IN  /\ engine' = res.g
            /\ last' = CallRecord("StartNewTurn", <<>>, "", res)
            /\ UNCHANGED <<now, db, activeGames, eventChan, emitted, received, proc, calc>>

\* the attempt is one of the sample texts
CallValidateAttempt ==
    \E attempt \in ServiceAttempts :
        LET res == ValidateAttempt(engine, attempt, now)
        IN  /\ engine' = res.g
            /\ last' = CallRecord("ValidateAttempt", attempt, "", res)
            /\ UNCHANGED <<now, db, activeGames, eventChan, emitted, received, proc, calc>>

\* the attempt is any text
CallValidateAnyAttempt ==
    \E attempt \in Attempts :
        LET res == ValidateAttempt(engine, attempt, now)
        IN  /\ engine' = res.g
            /\ last' = CallRecord("ValidateAttempt", attempt, "", res)
            /\ UNCHANGED <<now, db, activeGames, eventChan, emitted, received, proc, calc>>

CallGetHint ==
    \E hintType \in HintTypes :
        LET res == GetHint(engine, hintType)
        IN  /\ engine' = res.g
            /\ last' = CallRecord("GetHint", <<>>, hintType, res)
            /\ UNCHANGED <<now, db, activeGames, eventChan, emitted, received, proc, calc>>

CallCheckTimeLimit ==
    LET res == CheckTimeLimit(engine, now)
    IN  /\ engine' = res.g
        /\ last' = CallRecord("CheckTimeLimit", <<>>, "", res)
        /\ UNCHANGED <<now, db, activeGames, eventChan, emitted, received, proc, calc>>

CallRevealWord ==
    LET res == RevealWord(engine)
    IN  /\ engine' = res.g
        /\ last' = CallRecord("RevealWord", <<>>, "", res)
        /\ UNCHANGED <<now, db, activeGames, eventChan, emitted, received, proc, calc>>

CallUnmaskWord ==
    LET res == UnmaskWord(engine)
    IN  /\ engine' = res.g
        /\ last' = CallRecord("UnmaskWord", <<>>, "", res)
        /\ UNCHANGED <<now, db, activeGames, eventChan, emitted, received, proc, calc>>

CallRequestHint ==
    \E hintType \in HintTypes :
        LET res == RequestHint(engine, hintType)
        IN  /\ engine' = res.g
            /\ last' = CallRecord("RequestHint", <<>>, hintType, res)
            /\ UNCHANGED <<now, db, activeGames, eventChan, emitted, received, proc, calc>>

\* the instants at which the clock is read: the start, the time limit of a turn started then, and past it
Instants == {0, TurnTimeout, TurnTimeout + 1}

\* the clock advances
Tick ==
    /\ \E t \in Instants : t > now /\ now' = t
    /\ UNCHANGED <<engine, last, db, activeGames, eventChan, emitted, received, proc, calc>>

(***************************************************************************)
(* Package modes: settings of a game mode and the score of a game.         *)
(* A time.Duration is a number of seconds, an average time a number of     *)
(* tenths of a second; a float64 factor is a number of tenths.             *)
(***************************************************************************)
ModeRoundRobin == "round_robin"
ModeRapidFire == "rapid_fire"
ModeTotalGame == "total_game"

\* the modes a request can name: the three modes and a string that is none of them
GameModes == {ModeRoundRobin, ModeRapidFire, ModeTotalGame, ""}

\* time.Minute and time.Hour
Minute == 60
Hour == 60 * Minute

\* modes.GameSettings, the fields ValidateSettings reads
ModeSettings(mode, maxPlayers, maxRounds, timeLimit, wordLevel) ==
    [Mode |-> mode, MaxPlayers |-> maxPlayers, MaxRounds |-> maxRounds, TimeLimit |-> timeLimit,
     WordLevel |-> wordLevel]

\* DefaultSettings leaving the round limit of round robin unset (line 44 left out)
DefaultSettingsNoRounds(mode) ==
    CASE mode = ModeRoundRobin -> ModeSettings(mode, 32, 0, 0, 1)
      [] mode = ModeRapidFire  -> ModeSettings(mode, 2, 0, 10 * Minute, 1)
      [] mode = ModeTotalGame  -> ModeSettings(mode, 8, 20, 30 * Minute, 1)
      [] OTHER                 -> ModeSettings(mode, 0, 0, 0, 1)

\* modes.DefaultSettings: the base settings with the fields the mode sets
DefaultSettings(mode) ==
    CASE mode = ModeRoundRobin -> ModeSettings(mode, 32, 10, 0, 1)
      [] mode = ModeRapidFire  -> ModeSettings(mode, 2, 0, 10 * Minute, 1)
      [] mode = ModeTotalGame  -> ModeSettings(mode, 8, 20, 30 * Minute, 1)
      [] OTHER                 -> ModeSettings(mode, 0, 0, 0, 1)

\* ValidateSettings taking rapid fire with fewer than two players (> 2 for != 2 in line 74)
ValidateSettingsAtMostTwo(settings) ==
    IF settings.Mode = ModeRoundRobin /\ (settings.MaxPlayers < 2 \/ settings.MaxPlayers > 32)
    THEN "round robin requires 2-32 players"
    ELSE IF settings.Mode = ModeRoundRobin /\ settings.MaxRounds < 1
    THEN "round robin requires at least 1 round"
    ELSE IF settings.Mode = ModeRapidFire /\ settings.MaxPlayers > 2
    THEN "rapid fire is strictly 1v1"
    ELSE IF settings.Mode = ModeRapidFire
            /\ (settings.TimeLimit < Minute \/ settings.TimeLimit > 30 * Minute)
    THEN "rapid fire time limit must be between 1-30 minutes"
    ELSE IF settings.Mode = ModeTotalGame /\ (settings.MaxPlayers < 2 \/ settings.MaxPlayers > 8)
    THEN "total game requires 2-8 players"
    ELSE IF settings.Mode = ModeTotalGame
            /\ (settings.TimeLimit < 5 * Minute \/ settings.TimeLimit > Hour)
    THEN "total game time limit must be between 5-60 minutes"
    ELSE IF settings.WordLevel < 1 \/ settings.WordLevel > 10
    THEN "word level must be between 1-10"
    ELSE "nil"

\* modes.ValidateSettings: the error
ValidateSettings(settings) ==
    IF settings.Mode = ModeRoundRobin /\ (settings.MaxPlayers < 2 \/ settings.MaxPlayers > 32)
    THEN "round robin requires 2-32 players"
    ELSE IF settings.Mode = ModeRoundRobin /\ settings.MaxRounds < 1
    THEN "round robin requires at least 1 round"
    ELSE IF settings.Mode = ModeRapidFire /\ settings.MaxPlayers # 2
    THEN "rapid fire is strictly 1v1"
    ELSE IF settings.Mode = ModeRapidFire
            /\ (settings.TimeLimit < Minute \/ settings.TimeLimit > 30 * Minute)
    THEN "rapid fire time limit must be between 1-30 minutes"
    ELSE IF settings.Mode = ModeTotalGame /\ (settings.MaxPlayers < 2 \/ settings.MaxPlayers > 8)
    THEN "total game requires 2-8 players"
    ELSE IF settings.Mode = ModeTotalGame
            /\ (settings.TimeLimit < 5 * Minute \/ settings.TimeLimit > Hour)
    THEN "total game time limit must be between 5-60 minutes"
    ELSE IF settings.WordLevel < 1 \/ settings.WordLevel > 10
    THEN "word level must be between 1-10"
    ELSE "nil"

\* int(float64(n) * f) for n >= 0 and a factor f of so many tenths: the product, truncated
TimesTenths(n, tenths) == (n * tenths) \div 10

\* float64(correct) / float64(total) >= 0.9; x / 0 is +Inf for x > 0, and 0 / 0 is NaN, which
\* compares false
AccuracyAtLeastNineTenths(correct, total) ==
    IF total = 0 THEN correct > 0 ELSE 10 * correct >= 9 * total

\* CalculateScore granting the speed bonus at 5.0 too (<= for < in line 103)
CalculateScoreBonusAtFive(mode, correctAttempts, totalAttempts, averageTime) ==
    LET baseScore == correctAttempts * 100
    IN  IF mode = ModeRapidFire /\ averageTime <= 50 THEN TimesTenths(baseScore, 15)
        ELSE IF mode = ModeTotalGame /\ AccuracyAtLeastNineTenths(correctAttempts, totalAttempts)
        THEN TimesTenths(baseScore, 13)
        ELSE baseScore

\* modes.CalculateScore
CalculateScore(mode, correctAttempts, totalAttempts, averageTime) ==
    LET baseScore == correctAttempts * 100
    IN  IF mode = ModeRapidFire /\ averageTime < 50 THEN TimesTenths(baseScore, 15)
        ELSE IF mode = ModeTotalGame /\ AccuracyAtLeastNineTenths(correctAttempts, totalAttempts)
        THEN TimesTenths(baseScore, 13)
        ELSE baseScore

(***************************************************************************)
(* Package ranking: points of a placement, rating and rank.                *)
(***************************************************************************)
GoldPoints == 30
SilverPoints == 15
BronzePoints == 5
\* the highest rating (line 73)
MaxRating == 1200

Rank(color, minPoints, maxPoints) == [Color |-> color, MinPoints |-> minPoints, MaxPoints |-> maxPoints]

Ranks ==
    <<Rank("Gray", 0, 299), Rank("Violet", 300, 449), Rank("Indigo", 450, 599),
      Rank("Blue", 600, 749), Rank("Green", 750, 899), Rank("Yellow", 900, 1049),
      Rank("Orange", 1050, 1149), Rank("Red", 1150, 1200)>>

\* math.Round(num / den) for num >= 0: the nearest integer, a half rounded up
Round(num, den) == (2 * num + den) \div (2 * den)

\* CalculatePoints counting the second player as an additional player
CalculatePointsBonusFromTwo(placement, playerCount, isTournament) ==
    IF placement \notin {1, 2, 3} THEN 0
    ELSE LET basePoints == CASE placement = 1 -> GoldPoints
                             [] placement = 2 -> SilverPoints
                             [] placement = 3 -> BronzePoints
             playerTenths == IF playerCount > 1 THEN 10 + (playerCount - 1) ELSE 10
             tournamentHalves == IF isTournament THEN 3 ELSE 2
         IN  Round(basePoints * playerTenths * tournamentHalves, 20)

\* ranking.CalculatePoints: playerMultiplier is a number of tenths, tournamentMultiplier a
\* number of halves
CalculatePoints(placement, playerCount, isTournament) ==
    IF placement \notin {1, 2, 3} THEN 0
    ELSE LET basePoints == CASE placement = 1 -> GoldPoints
                             [] placement = 2 -> SilverPoints
                             [] placement = 3 -> BronzePoints
             playerTenths == IF playerCount > 2 THEN 10 + (playerCount - 2) ELSE 10
             tournamentHalves == IF isTournament THEN 3 ELSE 2
         IN  Round(basePoints * playerTenths * tournamentHalves, 20)

\* GetRankByPoints leaving the last total of every rank out (< for <= in line 63)
GetRankByPointsBelowMax(points) ==
    LET found == {i \in 1..Len(Ranks) : points >= Ranks[i].MinPoints /\ points < Ranks[i].MaxPoints}
    IN  IF found = {} THEN Ranks[1]
        ELSE Ranks[CHOOSE i \in found : \A j \in found : i <= j]

\* ranking.GetRankByPoints: the first rank of the list whose range holds the total, else Gray
GetRankByPoints(points) ==
    LET found == {i \in 1..Len(Ranks) : points >= Ranks[i].MinPoints /\ points <= Ranks[i].MaxPoints}
    IN  IF found = {} THEN Ranks[1]
        ELSE Ranks[CHOOSE i \in found : \A j \in found : i <= j]

\* CalculateNewRating without the lower bound (lines 76-78 left out)
CalculateNewRatingNoFloor(currentRating, pointsEarned) ==
    LET newRating == currentRating + pointsEarned
    IN  IF newRating > MaxRating THEN MaxRating ELSE newRating

\* ranking.CalculateNewRating
CalculateNewRating(currentRating, pointsEarned) ==
    LET newRating == currentRating + pointsEarned
    IN  IF newRating > MaxRating THEN MaxRating
        ELSE IF newRating < 0 THEN 0
        ELSE newRating

(***************************************************************************)
(* The functions of packages modes and ranking called one at a time.       *)
(***************************************************************************)
\* no settings
NoSettings == ModeSettings("", 0, 0, 0, 0)

\* no call: x, y and z are the integers passed, flag the boolean, called whether the call returned
NoCalc ==
    [fn |-> "none", mode |-> "", x |-> 0, y |-> 0, z |-> 0, flag |-> FALSE, settings |-> NoSettings,
     called |-> FALSE, out |-> 0, rank |-> Ranks[1], err |-> "nil"]

\* the values of each field around the bounds ValidateSettings tests
PlayerLimits == {1, 2, 3, 8, 9, 32, 33}
RoundLimits == {0, 1}
TimeLimits == {0, Minute - 1, Minute, 5 * Minute - 1, 5 * Minute, 30 * Minute, 30 * Minute + 1, Hour, Hour + 1}
WordLevels == {0, 1, 10, 11}

\* the settings a caller may pass
ValidateSettingsInputs ==
    {[NoCalc EXCEPT !.fn = "ValidateSettings",
                    !.settings = ModeSettings(mode, maxPlayers, maxRounds, timeLimit, wordLevel)] :
        mode \in GameModes, maxPlayers \in PlayerLimits, maxRounds \in RoundLimits,
        timeLimit \in TimeLimits, wordLevel \in WordLevels}

CallValidateSettings ==
    /\ calc.fn = "ValidateSettings" /\ ~calc.called
    /\ calc' = [calc EXCEPT !.called = TRUE, !.err = ValidateSettings(calc.settings)]
    /\ UNCHANGED <<engine, now, last, db, activeGames, eventChan, emitted, received, proc>>

\* the modes whose default settings are asked for
DefaultSettingsInputs == {[NoCalc EXCEPT !.fn = "DefaultSettings", !.mode = mode] : mode \in GameModes}

\* DefaultSettings(mode), and ValidateSettings on what it returns
CallDefaultSettings ==
    /\ calc.fn = "DefaultSettings" /\ ~calc.called
    /\ calc' = [calc EXCEPT !.called = TRUE, !.settings = DefaultSettings(calc.mode),
                            !.err = ValidateSettings(DefaultSettings(calc.mode))]
    /\ UNCHANGED <<engine, now, last, db, activeGames, eventChan, emitted, received, proc>>

\* average times around the limit of the speed bonus, in tenths of a second
AverageTimes == {30, 49, 50, 51, 60, 70}

\* the games scored: x correct attempts among y attempts, z the average time
CalculateScoreInputs ==
    UNION {{[NoCalc EXCEPT !.fn = "CalculateScore", !.mode = mode, !.x = correctAttempts,
                           !.y = totalAttempts, !.z = averageTime] :
                mode \in GameModes, averageTime \in AverageTimes, correctAttempts \in 0..totalAttempts} :
            totalAttempts \in 0..MaxAttempts}

CallCalculateScore ==
    /\ calc.fn = "CalculateScore" /\ ~calc.called
    /\ calc' = [calc EXCEPT !.called = TRUE, !.out = CalculateScore(calc.mode, calc.x, calc.y, calc.z)]
    /\ UNCHANGED <<engine, now, last, db, activeGames, eventChan, emitted, received, proc>>

\* the placements of a game: none, the podium and below
Placements == 0..4

\* the placements rewarded: placement x among y players, flag for a tournament
CalculatePointsInputs ==
    {[NoCalc EXCEPT !.fn = "CalculatePoints", !.x = placement, !.y = playerCount, !.flag = isTournament] :
        placement \in Placements, playerCount \in 0..MaxPlayerCount, isTournament \in BOOLEAN}

CallCalculatePoints ==
    /\ calc.fn = "CalculatePoints" /\ ~calc.called
    /\ calc' = [calc EXCEPT !.called = TRUE, !.out = CalculatePoints(calc.x, calc.y, calc.flag)]
    /\ UNCHANGED <<engine, now, last, db, activeGames, eventChan, emitted, received, proc>>

\* point totals from below the first rank to above the last
PointTotals == (0 - 2) .. (MaxRating + 2)

GetRankByPointsInputs == {[NoCalc EXCEPT !.fn = "GetRankByPoints", !.x = points] : points \in PointTotals}

CallGetRankByPoints ==
    /\ calc.fn = "GetRankByPoints" /\ ~calc.called
    /\ calc' = [calc EXCEPT !.called = TRUE, !.rank = GetRankByPoints(calc.x)]
    /\ UNCHANGED <<engine, now, last, db, activeGames, eventChan, emitted, received, proc>>

\* ratings a player may hold, and ratings outside the scale
Ratings == {0 - 50, 0, 10, 1000, 1190, MaxRating, 1300}

\* points won and lost in a game
PointsEarned == {0 - 1300, 0 - 20, 0 - 15, 0, 30, 72, 1300}

\* the rating x a player starts with
CalculateNewRatingInputs == {[NoCalc EXCEPT !.fn = "CalculateNewRating", !.x = rating] : rating \in Ratings}

\* one update of a sequence: the first takes the rating the player starts with, every later
\* one the rating the previous update returned (flag)
CallCalculateNewRating ==
    /\ calc.fn = "CalculateNewRating"
    /\ \E pointsEarned \in PointsEarned :
        LET currentRating == IF calc.called THEN calc.out ELSE calc.x
        IN  calc' = [calc EXCEPT !.called = TRUE, !.flag = calc.called, !.x = currentRating,
                                 !.y = pointsEarned,
                                 !.out = CalculateNewRating(currentRating, pointsEarned)]
    /\ UNCHANGED <<engine, now, last, db, activeGames, eventChan, emitted, received, proc>>

(***************************************************************************)
(* The persistence store: the row of the session in table games and its    *)
(* rows in table players.                                                  *)
(***************************************************************************)
GameID == "g1"
Users == {"u1", "u2"}
\* the goroutines that serve requests
Procs == {1, 2}

\* the GameSettings a session is created with
SettingsList ==
    {[MinPlayers |-> 2, MaxPlayers |-> 2, WordLevel |-> 1, HintsAllowed |-> 3, Elimination |-> FALSE],
     [MinPlayers |-> 2, MaxPlayers |-> 2, WordLevel |-> 1, HintsAllowed |-> 1, Elimination |-> TRUE]}

\* the GameSettings a CreateGame request may carry: those above, more players than any mode
\* admits, and a word level above the highest
RequestedSettings ==
    SettingsList
        \cup {[MinPlayers |-> 2, MaxPlayers |-> 33, WordLevel |-> 1, HintsAllowed |-> 3, Elimination |-> FALSE],
              [MinPlayers |-> 2, MaxPlayers |-> 2, WordLevel |-> 11, HintsAllowed |-> 3, Elimination |-> FALSE]}

\* the hint types gameService.GetHint chooses from
ServiceHintTypes == {"definition", "example_sentence", "etymology", "part_of_speech", "pronunciation"}

\* the zero value of GameSettings
NoGameSettings ==
    [MinPlayers |-> 0, MaxPlayers |-> 0, WordLevel |-> 0, HintsAllowed |-> 0, Elimination |-> FALSE]

\* no row for the session; current_player is the column of the turn owner and
\* spelling_attempts the rows of the session in table spelling_attempts
NoRow ==
    [status |-> "none", settings |-> NoGameSettings, players |-> <<>>,
     current_word_id |-> NoWord, turn_started_at |-> NoTime, word_masked |-> TRUE,
     round |-> 0, scores |-> [u \in Users |-> 0], current_player |-> "",
     spelling_attempts |-> <<>>]

\* the row CreateGame inserts (word_masked and round take the defaults of the schema)
NewRow(gameStatus, settings) ==
    [NoRow EXCEPT !.status = gameStatus, !.settings = settings]

InSeq(x, seq) == \E i \in 1..Len(seq) : seq[i] = x

\* the words table: the row of a word is identified by its text
WordRow(word) == [ID |-> word, Word |-> word]

(***************************************************************************)
(* gameService.  A goroutine executes one call at a time; a call is a      *)
(* sequence of steps, one for each access to the store, to the engine or   *)
(* to the event channel.                                                   *)
(***************************************************************************)
NoGame ==
    [status |-> "none", settings |-> NoGameSettings, players |-> <<>>,
     CurrentWord |-> NoWord, WordMasked |-> FALSE, TurnStartedAt |-> NoTime]

IdleProc ==
    [op |-> "idle", pc |-> "idle", playerID |-> "", attempt |-> <<>>, game |-> NoGame,
     count |-> 0, word |-> NoWord, isCorrect |-> FALSE, hintType |-> "", hint |-> NoHint,
     err |-> "", calls |-> 0]

\* the goroutine may take a new request
RECURSIVE SumCalls(_)
SumCalls(ps) ==
    IF ps = {} THEN 0
    ELSE LET p == CHOOSE q \in ps : TRUE IN proc[p].calls + SumCalls(ps \ {p})

CanCall(p) == proc[p].pc \in {"idle", "done"} /\ SumCalls(Procs) < MaxCalls

\* the locals of a call that begins
Begin(p, op, playerID) ==
    [IdleProc EXCEPT !.op = op, !.pc = "get", !.playerID = playerID, !.calls = proc[p].calls + 1]

\* the call returns err
Return(r, err) == [r EXCEPT !.pc = "done", !.err = err, !.count = 0]

\* gameService.GetGame: the error and the game read (ok: the query succeeds)
GetGame(ok) ==
    IF db.status = "none" THEN [game |-> NoGame, err |-> "ErrGameNotFound"]
    ELSE IF ~ok THEN [game |-> NoGame, err |-> "failed to get game"]
    ELSE [game |-> [status |-> db.status, settings |-> db.settings, players |-> db.players,
                    CurrentWord   |-> IF activeGames THEN engine.CurrentWord ELSE NoWord,
                    WordMasked    |-> IF activeGames THEN engine.WordMasked ELSE db.word_masked,
                    TurnStartedAt |-> IF activeGames THEN engine.TurnStartedAt ELSE db.turn_started_at],
          err  |-> "nil"]

\* emitEvent building an event that names no session
GameEventNoSession(eventType, r) ==
    [Type |-> eventType, GameID |-> "", PlayerID |-> r.playerID, word |-> r.word,
     attempt |-> r.attempt, correct |-> r.isCorrect, hintType |-> r.hintType, hint |-> r.hint]

\* the event emitEvent builds for the call r has carried out; its payload is the word of a
\* game_started event, the attempt and its verdict, or the hint
GameEvent(eventType, r) ==
    [Type |-> eventType, GameID |-> GameID, PlayerID |-> r.playerID, word |-> r.word,
     attempt |-> r.attempt, correct |-> r.isCorrect, hintType |-> r.hintType, hint |-> r.hint]

\* emitEvent dropping the event when the channel is full instead of waiting (a send under
\* select with a default case)
EmitEventOrDrop(p) ==
    /\ proc[p].pc = "emit"
    /\ LET r == proc[p]
           event == CASE r.op = "CreateGame"  -> GameEvent("game_created", r)
                      [] r.op = "JoinGame"    -> GameEvent("player_joined", r)
                      [] r.op = "StartGame"   -> GameEvent("game_started", r)
                      [] r.op = "MakeAttempt" ->
                            GameEvent(IF r.isCorrect THEN "attempt_succeeded" ELSE "attempt_failed", r)
                      [] r.op = "GetHint"     -> GameEvent("hint_requested", r)
       IN  /\ eventChan' = IF Len(eventChan) < EventChanCap THEN Append(eventChan, event) ELSE eventChan
           /\ emitted' = Append(emitted, event)
           /\ proc' = [proc EXCEPT ![p] = Return(r, "nil")]
    /\ UNCHANGED <<engine, now, last, db, activeGames, received, calc>>

\* gameService.emitEvent, the last step of every successful call: the send blocks while the channel is full
EmitEvent(p) ==
    /\ proc[p].pc = "emit"
    /\ Len(eventChan) < EventChanCap
    /\ LET r == proc[p]
           event == CASE r.op = "CreateGame"  -> GameEvent("game_created", r)
                      [] r.op = "JoinGame"    -> GameEvent("player_joined", r)
                      [] r.op = "StartGame"   -> GameEvent("game_started", r)
                      [] r.op = "MakeAttempt" ->
                            GameEvent(IF r.isCorrect THEN "attempt_succeeded" ELSE "attempt_failed", r)
                      [] r.op = "GetHint"     -> GameEvent("hint_requested", r)
       IN  /\ eventChan' = Append(eventChan, event)
           /\ emitted' = Append(emitted, event)
           /\ proc' = [proc EXCEPT ![p] = Return(r, "nil")]
    /\ UNCHANGED <<engine, now, last, db, activeGames, received, calc>>

----
\* the connections to GET /games/:gameID/events
Subscribers == {"s1", "s2"}

\* a session other than the one under observation
OtherGameID == "g2"

\* the gameID of the route each subscriber connected to
SubscribedTo(c) == IF c = "s1" THEN GameID ELSE OtherGameID

\* a subscriber that has not connected: state is none before the upgrade, open in the
\* loop over Events(), closed once a write has failed; from counts the events sent before
\* the subscriber connected
NoSubscription == [state |-> "none", from |-> 0, events |-> <<>>]

\* Handler.SubscribeToEvents up to the loop: the connection is upgraded (a failed upgrade
\* returns and leaves nothing behind); the gameID of the route is not read
SubscribeToEvents(c) ==
    /\ received[c].state = "none"
    /\ received' = [received EXCEPT ![c] = [@ EXCEPT !.state = "open", !.from = Len(emitted)]]
    /\ UNCHANGED <<engine, now, last, db, activeGames, eventChan, emitted, proc, calc>>

\* the loop taking the newest event of the channel instead of the oldest
ReceiveNewest(c) ==
    /\ received[c].state = "open"
    /\ eventChan # <<>>
    /\ \E ok \in BOOLEAN :
        received' = [received EXCEPT ![c] =
            [@ EXCEPT !.events = Append(@, eventChan[Len(eventChan)]),
                      !.state = IF ok THEN "open" ELSE "closed"]]
    /\ eventChan' = SubSeq(eventChan, 1, Len(eventChan) - 1)
    /\ UNCHANGED <<engine, now, last, db, activeGames, emitted, proc, calc>>

\* one round of the loop of Handler.SubscribeToEvents: the subscriber takes the oldest event
\* of the channel and writes it to its connection; the loop ends when the write fails (ok)
Receive(c) ==
    /\ received[c].state = "open"
    /\ eventChan # <<>>
    /\ \E ok \in BOOLEAN :
        received' = [received EXCEPT ![c] =
            [@ EXCEPT !.events = Append(@, Head(eventChan)),
                      !.state = IF ok THEN "open" ELSE "closed"]]
    /\ eventChan' = Tail(eventChan)
    /\ UNCHANGED <<engine, now, last, db, activeGames, emitted, proc, calc>>

----
\* CreateGame, the INSERT: the session under observation is the one this call creates
CreateGameInsert(p) ==
    /\ CanCall(p)
    /\ db.status = "none"
    /\ \A q \in Procs : ~(proc[q].op = "CreateGame" /\ proc[q].pc \notin {"idle", "done"})
    /\ \E settings \in RequestedSettings, ok \in BOOLEAN :
        LET r == [Begin(p, "CreateGame", "") EXCEPT
                    !.game = [NoGame EXCEPT !.status = "initializing", !.settings = settings]]
        IN  IF ok
            THEN /\ db' = NewRow("initializing", settings)
                 /\ proc' = [proc EXCEPT ![p] = [r EXCEPT !.pc = "register"]]
            ELSE /\ db' = db
                 /\ proc' = [proc EXCEPT ![p] = Return(r, "failed to create game")]
    /\ UNCHANGED <<engine, now, last, activeGames, eventChan, emitted, received, calc>>

\* CreateGame, s.activeGames[game.ID] = NewGameEngine(...)
CreateGameRegister(p) ==
    /\ proc[p].op = "CreateGame" /\ proc[p].pc = "register"
    /\ activeGames' = TRUE
    /\ engine' = NewGameEngine
    /\ proc' = [proc EXCEPT ![p].pc = "emit"]
    /\ UNCHANGED <<now, last, db, eventChan, emitted, received, calc>>

----
\* JoinGame, GetGame and the status check
JoinGameGet(p) ==
    /\ CanCall(p)
    /\ \E playerID \in Users, ok \in BOOLEAN :
        LET got == GetGame(ok)
            r   == [Begin(p, "JoinGame", playerID) EXCEPT !.game = got.game]
        IN  proc' = [proc EXCEPT ![p] =
                IF got.err # "nil" THEN Return(r, got.err)
                ELSE IF got.game.status # "waiting" THEN Return(r, "ErrInvalidGameState")
                ELSE [r EXCEPT !.pc = "count"]]
    /\ UNCHANGED <<engine, now, last, db, activeGames, eventChan, emitted, received, calc>>

\* JoinGame, SELECT COUNT(*) and the check against MaxPlayers
JoinGameCount(p) ==
    /\ proc[p].op = "JoinGame" /\ proc[p].pc = "count"
    /\ \E ok \in BOOLEAN :
        LET r == [proc[p] EXCEPT !.count = IF ok THEN Len(db.players) ELSE 0]
        IN  proc' = [proc EXCEPT ![p] =
                IF ~ok THEN Return(r, "failed to count players")
                ELSE IF r.count >= r.game.settings.MaxPlayers THEN Return(r, "ErrGameFull")
                ELSE [r EXCEPT !.pc = "insert"]]
    /\ UNCHANGED <<engine, now, last, db, activeGames, eventChan, emitted, received, calc>>

\* JoinGame, the INSERT into players; UNIQUE(game_id, player_id) rejects a user already in
\* the roster.  The store decides whether the statement succeeds (ok); the statement names a
\* column user_id where the schema has player_id, so a store may refuse it every time.
JoinGameInsert(p) ==
    /\ proc[p].op = "JoinGame" /\ proc[p].pc = "insert"
    /\ \E ok \in BOOLEAN :
        IF ok /\ ~InSeq(proc[p].playerID, db.players)
        THEN /\ db' = [db EXCEPT !.players = Append(@, proc[p].playerID)]
             /\ proc' = [proc EXCEPT ![p].pc = "emit"]
        ELSE /\ db' = db
             /\ proc' = [proc EXCEPT ![p] = Return(proc[p], "failed to add player")]
    /\ UNCHANGED <<engine, now, last, activeGames, eventChan, emitted, received, calc>>

----
\* StartGame without the status check of lines 300-302
StartGameGetUnchecked(p) ==
    /\ CanCall(p)
    /\ \E ok \in BOOLEAN :
        LET got == GetGame(ok)
            r   == [Begin(p, "StartGame", "") EXCEPT !.game = got.game]
        IN  proc' = [proc EXCEPT ![p] =
                IF got.err # "nil" THEN Return(r, got.err)
                ELSE [r EXCEPT !.pc = "word"]]
    /\ UNCHANGED <<engine, now, last, db, activeGames, eventChan, emitted, received, calc>>

\* StartGame, GetGame and the status check (the call never reads its userID)
StartGameGet(p) ==
    /\ CanCall(p)
    /\ \E ok \in BOOLEAN :
        LET got == GetGame(ok)
            r   == [Begin(p, "StartGame", "") EXCEPT !.game = got.game]
        IN  proc' = [proc EXCEPT ![p] =
                IF got.err # "nil" THEN Return(r, got.err)
                ELSE IF got.game.status # "waiting" THEN Return(r, "ErrInvalidGameState")
                ELSE [r EXCEPT !.pc = "word"]]
    /\ UNCHANGED <<engine, now, last, db, activeGames, eventChan, emitted, received, calc>>

\* StartGame, wordService.GetRandomWord
StartGameWord(p) ==
    /\ proc[p].op = "StartGame" /\ proc[p].pc = "word"
    /\ \/ proc' = [proc EXCEPT ![p] = Return(proc[p], "failed to get word")]
       \/ \E word \in WordList :
            proc' = [proc EXCEPT ![p] = [proc[p] EXCEPT !.word = <<WordRow(word)>>, !.pc = "turn"]]
    /\ UNCHANGED <<engine, now, last, db, activeGames, eventChan, emitted, received, calc>>

\* StartGame registering the engine without starting the turn (lines 317-319 left out)
StartGameTurnSkipped(p) ==
    /\ proc[p].op = "StartGame" /\ proc[p].pc = "turn"
    /\ activeGames' = TRUE
    /\ engine' = IF activeGames THEN engine ELSE NewGameEngine
    /\ proc' = [proc EXCEPT ![p].pc = "update"]
    /\ UNCHANGED <<now, last, db, eventChan, emitted, received, calc>>

\* StartGame, the engine is looked up or created and registered, then engine.StartTurn
StartGameTurn(p) ==
    /\ proc[p].op = "StartGame" /\ proc[p].pc = "turn"
    /\ \E info \in WordInfoAnswers(proc[p].word[1].Word) :
        LET g   == IF activeGames THEN engine ELSE NewGameEngine
            res == StartTurn(g, info, now)
        IN  /\ activeGames' = TRUE
            /\ engine' = res.g
            /\ proc' = [proc EXCEPT ![p] =
                    IF res.err # "nil" THEN Return(proc[p], "failed to start turn")
                    ELSE [proc[p] EXCEPT !.pc = "update"]]
    /\ UNCHANGED <<now, last, db, eventChan, emitted, received, calc>>

\* StartGame, the UPDATE that makes the session active
StartGameUpdate(p) ==
    /\ proc[p].op = "StartGame" /\ proc[p].pc = "update"
    /\ \E ok \in BOOLEAN :
        IF ok
        THEN /\ db' = [db EXCEPT !.status = "active", !.current_word_id = <<proc[p].word[1].ID>>,
                                 !.turn_started_at = now, !.word_masked = TRUE]
             /\ proc' = [proc EXCEPT ![p] = [proc[p] EXCEPT !.game.status = "active", !.pc = "emit"]]
        ELSE /\ db' = db
             /\ proc' = [proc EXCEPT ![p] = Return(proc[p], "failed to update game")]
    /\ UNCHANGED <<engine, now, last, activeGames, eventChan, emitted, received, calc>>

----
\* MakeAttempt, GetGame and the status check
MakeAttemptGet(p) ==
    /\ CanCall(p)
    /\ \E playerID \in Users, attempt \in ServiceAttempts, ok \in BOOLEAN :
        LET got == GetGame(ok)
            r   == [Begin(p, "MakeAttempt", playerID) EXCEPT !.game = got.game, !.attempt = attempt]
        IN  proc' = [proc EXCEPT ![p] =
                IF got.err # "nil" THEN Return(r, "failed to get game")
                ELSE IF got.game.status # "active" THEN Return(r, "ErrInvalidGameState")
                ELSE [r EXCEPT !.pc = "validate"]]
    /\ UNCHANGED <<engine, now, last, db, activeGames, eventChan, emitted, received, calc>>

\* MakeAttempt, the engine is looked up and validates the attempt
MakeAttemptValidate(p) ==
    /\ proc[p].op = "MakeAttempt" /\ proc[p].pc = "validate"
    /\ LET res == ValidateAttempt(engine, proc[p].attempt, now)
       IN  proc' = [proc EXCEPT ![p] =
                IF ~activeGames THEN Return(proc[p], "ErrGameNotFound")
                ELSE IF res.err # "nil" THEN Return(proc[p], "failed to validate attempt")
                ELSE [proc[p] EXCEPT !.isCorrect = res.ok, !.pc = "update"]]
    /\ UNCHANGED <<engine, now, last, db, activeGames, eventChan, emitted, received, calc>>

\* MakeAttempt whose winning UPDATE puts the session back to waiting
MakeAttemptUpdateReopens(p) ==
    /\ proc[p].op = "MakeAttempt" /\ proc[p].pc = "update"
    /\ \E ok \in BOOLEAN :
        IF ok
        THEN /\ db' = IF proc[p].isCorrect
                      THEN [db EXCEPT !.current_word_id = NoWord, !.turn_started_at = NoTime,
                                      !.word_masked = FALSE, !.status = "waiting",
                                      !.scores[proc[p].playerID] = @ + 1]
                      ELSE db
             /\ proc' = [proc EXCEPT ![p].pc = "emit"]
        ELSE /\ db' = db
             /\ proc' = [proc EXCEPT ![p] = Return(proc[p], "failed to update game")]
    /\ UNCHANGED <<engine, now, last, activeGames, eventChan, emitted, received, calc>>

\* MakeAttempt, the UPDATE: a correct attempt clears the word of the turn and credits the
\* player.  The store decides whether the statement succeeds (ok); the statement of a correct
\* attempt names $4 and binds three arguments, so a store may refuse it every time.
MakeAttemptUpdate(p) ==
    /\ proc[p].op = "MakeAttempt" /\ proc[p].pc = "update"
    /\ \E ok \in BOOLEAN :
        IF ok
        THEN /\ db' = IF proc[p].isCorrect
                      THEN [db EXCEPT !.current_word_id = NoWord, !.turn_started_at = NoTime,
                                      !.word_masked = FALSE,
                                      !.scores[proc[p].playerID] = @ + 1]
                      ELSE db
             /\ proc' = [proc EXCEPT ![p].pc = "emit"]
        ELSE /\ db' = db
             /\ proc' = [proc EXCEPT ![p] = Return(proc[p], "failed to update game")]
    /\ UNCHANGED <<engine, now, last, activeGames, eventChan, emitted, received, calc>>

----
\* gameService.GetHint, GetGame and the status check
GetHintGet(p) ==
    /\ CanCall(p)
    /\ \E playerID \in Users, ok \in BOOLEAN :
        LET got == GetGame(ok)
            r   == [Begin(p, "GetHint", playerID) EXCEPT !.game = got.game]
        IN  proc' = [proc EXCEPT ![p] =
                IF got.err # "nil" THEN Return(r, "failed to get game")
                ELSE IF got.game.status # "active" THEN Return(r, "ErrInvalidGameState")
                ELSE [r EXCEPT !.pc = "hint"]]
    /\ UNCHANGED <<engine, now, last, db, activeGames, eventChan, emitted, received, calc>>

\* gameService.GetHint, the engine is looked up, a hint type is picked from the clock and engine.GetHint runs
GetHintHint(p) ==
    /\ proc[p].op = "GetHint" /\ proc[p].pc = "hint"
    /\ \E hintType \in ServiceHintTypes :
        LET res == GetHint(engine, hintType)
        IN  IF ~activeGames
            THEN /\ engine' = engine
                 /\ proc' = [proc EXCEPT ![p] = Return(proc[p], "ErrGameNotFound")]
            ELSE /\ engine' = res.g
                 /\ proc' = [proc EXCEPT ![p] =
                        IF res.err # "nil" THEN Return(proc[p], "failed to get hint")
                        ELSE [proc[p] EXCEPT !.hintType = hintType, !.hint = res.hint, !.pc = "emit"]]
    /\ UNCHANGED <<now, last, db, activeGames, eventChan, emitted, received, calc>>

----
\* The statements of GetGame and of engine.StartTurn one at a time: neither holds a lock, so
\* the reads of the one and the writes of the other interleave.

\* GetGame as Handler.GetGame calls it: the query, and the lookup of the engine
GetGameQuery(p) ==
    /\ CanCall(p)
    /\ \E ok \in BOOLEAN :
        LET r == Begin(p, "GetGame", "")
        IN  proc' = [proc EXCEPT ![p] =
                IF db.status = "none" THEN Return(r, "ErrGameNotFound")
                ELSE IF ~ok THEN Return(r, "failed to get game")
                ELSE LET game == [NoGame EXCEPT !.status = db.status, !.settings = db.settings,
                                                !.players = db.players, !.WordMasked = db.word_masked,
                                                !.TurnStartedAt = db.turn_started_at]
                     IN  IF activeGames THEN [r EXCEPT !.game = game, !.pc = "readWord"]
                         ELSE Return([r EXCEPT !.game = game], "nil")]
    /\ UNCHANGED <<engine, now, last, db, activeGames, eventChan, emitted, received, calc>>

\* game.CurrentWord = engine.CurrentWord
GetGameReadWord(p) ==
    /\ proc[p].op = "GetGame" /\ proc[p].pc = "readWord"
    /\ proc' = [proc EXCEPT ![p] = [proc[p] EXCEPT !.game.CurrentWord = engine.CurrentWord,
                                                   !.pc = "readMasked"]]
    /\ UNCHANGED <<engine, now, last, db, activeGames, eventChan, emitted, received, calc>>

\* game.WordMasked = engine.WordMasked
GetGameReadMasked(p) ==
    /\ proc[p].op = "GetGame" /\ proc[p].pc = "readMasked"
    /\ proc' = [proc EXCEPT ![p] = [proc[p] EXCEPT !.game.WordMasked = engine.WordMasked,
                                                   !.pc = "readStarted"]]
    /\ UNCHANGED <<engine, now, last, db, activeGames, eventChan, emitted, received, calc>>

\* game.TurnStartedAt = engine.TurnStartedAt, and the return
GetGameReadStarted(p) ==
    /\ proc[p].op = "GetGame" /\ proc[p].pc = "readStarted"
    /\ proc' = [proc EXCEPT ![p] =
            Return([proc[p] EXCEPT !.game.TurnStartedAt = engine.TurnStartedAt], "nil")]
    /\ UNCHANGED <<engine, now, last, db, activeGames, eventChan, emitted, received, calc>>

\* StartGame: the engine is looked up or created and registered; StartTurn asks the
\* dictionary for the word
StartTurnWordInfo(p) ==
    /\ proc[p].op = "StartGame" /\ proc[p].pc = "turn"
    /\ \E info \in WordInfoAnswers(proc[p].word[1].Word) :
        proc' = [proc EXCEPT ![p] =
            IF info = <<>> THEN Return(proc[p], "failed to start turn")
            ELSE [proc[p] EXCEPT !.pc = "setWord"]]
    /\ activeGames' = TRUE
    /\ engine' = IF activeGames THEN engine ELSE NewGameEngine
    /\ UNCHANGED <<now, last, db, eventChan, emitted, received, calc>>

\* g.CurrentWord = wordInfo
StartTurnSetWord(p) ==
    /\ proc[p].op = "StartGame" /\ proc[p].pc = "setWord"
    /\ engine' = [engine EXCEPT !.CurrentWord = <<GetWordInfo(proc[p].word[1].Word)>>]
    /\ proc' = [proc EXCEPT ![p].pc = "setMasked"]
    /\ UNCHANGED <<now, last, db, activeGames, eventChan, emitted, received, calc>>

\* g.WordMasked = true
StartTurnSetMasked(p) ==
    /\ proc[p].op = "StartGame" /\ proc[p].pc = "setMasked"
    /\ engine' = [engine EXCEPT !.WordMasked = TRUE]
    /\ proc' = [proc EXCEPT ![p].pc = "setHints"]
    /\ UNCHANGED <<now, last, db, activeGames, eventChan, emitted, received, calc>>

\* g.HintsUsed = 0
StartTurnSetHints(p) ==
    /\ proc[p].op = "StartGame" /\ proc[p].pc = "setHints"
    /\ engine' = [engine EXCEPT !.HintsUsed = 0]
    /\ proc' = [proc EXCEPT ![p].pc = "setStarted"]
    /\ UNCHANGED <<now, last, db, activeGames, eventChan, emitted, received, calc>>

\* g.TurnStartedAt = &now, and the return to StartGame
StartTurnSetStarted(p) ==
    /\ proc[p].op = "StartGame" /\ proc[p].pc = "setStarted"
    /\ engine' = [engine EXCEPT !.TurnStartedAt = now]
    /\ proc' = [proc EXCEPT ![p].pc = "update"]
    /\ UNCHANGED <<now, last, db, activeGames, eventChan, emitted, received, calc>>

(***************************************************************************)
(* Specifications.                                                         *)
(***************************************************************************)
\* a step of the call goroutine p is executing, or the first step of its next call
ServiceStep(p) ==
    \/ CreateGameInsert(p) \/ CreateGameRegister(p)
    \/ JoinGameGet(p) \/ JoinGameCount(p) \/ JoinGameInsert(p)
    \/ StartGameGet(p) \/ StartGameWord(p) \/ StartGameTurn(p) \/ StartGameUpdate(p)
    \/ MakeAttemptGet(p) \/ MakeAttemptValidate(p) \/ MakeAttemptUpdate(p)
    \/ GetHintGet(p) \/ GetHintHint(p)
    \/ EmitEvent(p)

\* the store at construction of the service: no session, or a session waiting for players.
\* CreateGame inserts a session as initializing and nothing in the service makes it waiting,
\* so a waiting session is one the store already holds, as in the fixtures of the tests.
InitRows == {NoRow} \cup {NewRow("waiting", settings) : settings \in SettingsList}

InitEngine ==
    /\ engine = NewGameEngine
    /\ now = 0
    /\ last = NoCall
    /\ db = NoRow
    /\ activeGames = FALSE
    /\ eventChan = <<>>
    /\ emitted = <<>>
    /\ received = [c \in Subscribers |-> NoSubscription]
    /\ proc = [p \in Procs |-> IdleProc]
    /\ calc = NoCalc

Init ==
    /\ engine = NewGameEngine
    /\ now = 0
    /\ last = NoCall
    /\ db \in InitRows
    /\ activeGames = FALSE
    /\ eventChan = <<>>
    /\ emitted = <<>>
    /\ received = [c \in Subscribers |-> NoSubscription]
    /\ proc = [p \in Procs |-> IdleProc]
    /\ calc = NoCalc

\* the engine called directly
NextEngine ==
    \/ CallStartTurn \/ CallStartNewTurn \/ CallValidateAttempt \/ CallGetHint
    \/ CallCheckTimeLimit \/ CallRevealWord \/ CallUnmaskWord \/ CallRequestHint
    \/ Tick

SpecEngine == InitEngine /\ [][NextEngine]_vars

\* the engine validating every text
NextText == CallStartTurn \/ CallValidateAnyAttempt \/ Tick

SpecText == InitEngine /\ [][NextText]_vars

\* the service called by one goroutine: one call at a time
NextSeq == ServiceStep(1) \/ Tick

SpecSeq == Init /\ [][NextSeq]_vars

\* a user who joined the session before
SeatedUser == "u0"

\* a session waiting for players that has one seat left
OneSeatLeft ==
    {[NewRow("waiting", settings) EXCEPT !.players = <<SeatedUser>>] : settings \in SettingsList}

InitJoin ==
    /\ engine = NewGameEngine
    /\ now = 0
    /\ last = NoCall
    /\ db \in OneSeatLeft
    /\ activeGames = FALSE
    /\ eventChan = <<>>
    /\ emitted = <<>>
    /\ received = [c \in Subscribers |-> NoSubscription]
    /\ proc = [p \in Procs |-> IdleProc]
    /\ calc = NoCalc

\* a step of a JoinGame call of goroutine p
JoinGameStep(p) == JoinGameGet(p) \/ JoinGameCount(p) \/ JoinGameInsert(p) \/ EmitEvent(p)

\* the goroutines serving JoinGame requests concurrently
NextJoin == \E p \in Procs : JoinGameStep(p)

SpecJoin == InitJoin /\ [][NextJoin]_vars

\* an event of another session, sent by an earlier call and not read yet
EarlierEvent ==
    [Type |-> "attempt_failed", GameID |-> OtherGameID, PlayerID |-> "u1", word |-> NoWord,
     attempt |-> <<"b">>, correct |-> FALSE, hintType |-> "", hint |-> NoHint]

\* the channel holding n events that no subscriber has read
Backlog(n) == [i \in 1..n |-> EarlierEvent]

\* the channel is empty, or one event short of its capacity
BacklogSizes == {0, EventChanCap - 1}

\* the rows of sessions without elimination: JoinGame reads MaxPlayers only
PlainRows == {row \in InitRows : ~row.settings.Elimination}

InitBus ==
    /\ engine = NewGameEngine
    /\ now = 0
    /\ last = NoCall
    /\ db \in PlainRows
    /\ activeGames = FALSE
    /\ \E n \in BacklogSizes : eventChan = Backlog(n) /\ emitted = Backlog(n)
    /\ received = [c \in Subscribers |-> NoSubscription]
    /\ proc = [p \in Procs |-> IdleProc]
    /\ calc = NoCalc

\* a step of a JoinGame or StartGame call of goroutine p: the calls that feed the channel
\* while a session fills and starts
ProducerStep(p) ==
    \/ JoinGameGet(p) \/ JoinGameCount(p) \/ JoinGameInsert(p)
    \/ StartGameGet(p) \/ StartGameWord(p) \/ StartGameTurn(p) \/ StartGameUpdate(p)
    \/ EmitEvent(p)

\* players joining through one goroutine and one subscriber draining the channel
NextBus == JoinGameStep(1) \/ SubscribeToEvents("s1") \/ Receive("s1")

SpecBus == InitBus /\ [][NextBus]_vars

\* the subscriber keeps running its loop and a send that can proceed does
FairBus == SpecBus /\ WF_vars(Receive("s1")) /\ WF_vars(EmitEvent(1))

\* the service called by one goroutine and the subscribers of two sessions
NextFanout == ProducerStep(1) \/ (\E c \in Subscribers : SubscribeToEvents(c) \/ Receive(c))

SpecFanout == Init /\ [][NextFanout]_vars

\* goroutine 1 starts the session, statement by statement, while goroutine 2 serves GetGame
NextSnapshot ==
    \/ StartGameGet(1) \/ StartGameWord(1) \/ StartTurnWordInfo(1) \/ StartTurnSetWord(1)
    \/ StartTurnSetMasked(1) \/ StartTurnSetHints(1) \/ StartTurnSetStarted(1)
    \/ StartGameUpdate(1) \/ EmitEvent(1)
    \/ GetGameQuery(2) \/ GetGameReadWord(2) \/ GetGameReadMasked(2) \/ GetGameReadStarted(2)

SpecSnapshot == Init /\ [][NextSnapshot]_vars

\* the values of GameStatus
GameStatuses == {"created", "initializing", "waiting", "playing", "active", "finished", "cancelled"}

\* the store holds no row for the session, or a row of any status; the service has just
\* been started
InitStatus ==
    /\ engine = NewGameEngine
    /\ now = 0
    /\ last = NoCall
    /\ db \in {NoRow} \cup {NewRow(gameStatus, settings) : gameStatus \in GameStatuses, settings \in SettingsList}
    /\ activeGames = FALSE
    /\ eventChan = <<>>
    /\ emitted = <<>>
    /\ received = [c \in Subscribers |-> NoSubscription]
    /\ proc = [p \in Procs |-> IdleProc]
    /\ calc = NoCalc

\* the calls of one goroutine on a session of any status
SpecStatus == InitStatus /\ [][NextSeq]_vars

\* the functions of packages modes and ranking applied to their arguments
NextCalc ==
    \/ CallValidateSettings \/ CallCalculateScore \/ CallCalculatePoints
    \/ CallGetRankByPoints \/ CallCalculateNewRating \/ CallDefaultSettings

\* the call to make and its arguments
InitCalc ==
    /\ engine = NewGameEngine
    /\ now = 0
    /\ last = NoCall
    /\ db = NoRow
    /\ activeGames = FALSE
    /\ eventChan = <<>>
    /\ emitted = <<>>
    /\ received = [c \in Subscribers |-> NoSubscription]
    /\ proc = [p \in Procs |-> IdleProc]
    /\ calc \in ValidateSettingsInputs \cup CalculateScoreInputs \cup CalculatePointsInputs
                 \cup GetRankByPointsInputs \cup CalculateNewRatingInputs \cup DefaultSettingsInputs

SpecCalc == InitCalc /\ [][NextCalc]_vars

\* the service called by all goroutines concurrently
Next == (\E p \in Procs : ServiceStep(p)) \/ Tick

Spec == Init /\ [][Next]_vars

(***************************************************************************)
(* Properties of the engine.                                               *)
(***************************************************************************)
\* the time the turn of engine g had run at instant t
Elapsed(g, t) == t - g.TurnStartedAt

\* C1: after any sequence of engine calls, failing ones included, the hint counter of the
\* turn is at least 0 and at most the hint budget MaxHints.
C1_HintsWithinBudget == engine.HintsUsed >= 0 /\ engine.HintsUsed <= MaxHints

\* the third hint of a turn has been granted: the counter is at the budget
C1_Witness == last.op = "GetHint" /\ last.res.err = "nil" /\ engine.HintsUsed = MaxHints

\* C7: on an open, unexpired turn ValidateAttempt answers Correct exactly when the attempt
\* equals the current word after trimming surrounding whitespace and ignoring letter case.
C7_TrimmedFoldedMatch ==
    (last.op = "ValidateAttempt" /\ last.res.err = "nil")
        => (last.res.ok <=> EqualFold(TrimSpace(last.text), TrimSpace(engine.CurrentWord[1].Word)))

\* C8: ValidateAttempt scores no attempt outside a live turn: without a word it fails with
\* ErrNoWordSet, after more than the time limit it fails with the time-out error whatever the
\* text, and up to the limit, the limit included, the attempt is judged.
C8_OnlyLiveTurnsScored ==
    last.op = "ValidateAttempt" =>
        /\ last.pre.CurrentWord = NoWord => (last.res.err = "ErrNoWordSet" /\ last.res.ok = FALSE)
        /\ (last.pre.CurrentWord # NoWord /\ Elapsed(last.pre, last.at) > TurnTimeout)
              => (last.res.err = "turn has timed out" /\ last.res.ok = FALSE)
        /\ (last.pre.CurrentWord # NoWord /\ last.pre.TurnStartedAt # NoTime
              /\ Elapsed(last.pre, last.at) <= TurnTimeout)
              => last.res.err = "nil"

\* an attempt that spells the word arrives after the time limit and is refused
C8_Witness ==
    /\ last.op = "ValidateAttempt"
    /\ last.pre.CurrentWord # NoWord
    /\ EqualFold(last.text, last.pre.CurrentWord[1].Word)
    /\ Elapsed(last.pre, last.at) > TurnTimeout
    /\ last.res.err = "turn has timed out"

\* C9: every successful StartTurn and StartNewTurn leaves the engine with no hint used, the
\* word masked, the new word as current word and the time of the call as start of the turn,
\* whatever the turn before was.
C9_StartTurnResets ==
    (last.op \in {"StartTurn", "StartNewTurn"} /\ last.res.err = "nil") =>
        /\ engine.HintsUsed = 0
        /\ engine.WordMasked = TRUE
        /\ engine.CurrentWord # NoWord
        /\ engine.CurrentWord[1].Word = last.text
        /\ engine.TurnStartedAt = last.at

\* a turn starts after a turn that had used all its hints, was revealed and had timed out
C9_Witness ==
    /\ last.op = "StartTurn" /\ last.res.err = "nil"
    /\ last.pre.CurrentWord # NoWord
    /\ last.pre.HintsUsed = MaxHints
    /\ last.pre.WordMasked = FALSE
    /\ Elapsed(last.pre, last.at) > TurnTimeout
    /\ engine.HintsUsed = 0

\* C10: a hint request that fails leaves the hint counter as it was: a request made with the
\* budget used up fails with ErrMaxHintsUsed, and a request without a word or one the
\* dictionary refuses uses no budget.
C10_FailedHintIsFree ==
    last.op = "GetHint" =>
        /\ last.res.err # "nil" => engine.HintsUsed = last.pre.HintsUsed
        /\ (last.pre.CurrentWord # NoWord /\ last.pre.HintsUsed = MaxHints)
              => (last.res.err = "ErrMaxHintsUsed" /\ engine.HintsUsed = MaxHints)
        /\ last.pre.CurrentWord = NoWord => last.res.err = "ErrNoWordSet"

\* the dictionary refuses the hint type of a request made with budget left
C10_Witness ==
    /\ last.op = "GetHint" /\ last.res.err = "failed to get hint"
    /\ last.pre.HintsUsed < MaxHints
    /\ engine.HintsUsed = last.pre.HintsUsed

\* C11: a hint request that succeeds returns the content the dictionary holds for the current
\* word and the requested kind, counts exactly one hint, and leaves the word, the masked flag
\* and the start of the turn as they were.
C11_HintGrantedCountsOnce ==
    (last.op = "GetHint" /\ last.res.err = "nil") =>
        /\ last.pre.CurrentWord # NoWord
        /\ last.pre.HintsUsed < MaxHints
        /\ last.res.hint = DictGetHint(last.pre.CurrentWord[1], last.hintType).hint
        /\ last.res.hint.of = last.pre.CurrentWord[1].Word
        /\ engine.HintsUsed = last.pre.HintsUsed + 1
        /\ engine.CurrentWord = last.pre.CurrentWord
        /\ engine.WordMasked = last.pre.WordMasked
        /\ engine.TurnStartedAt = last.pre.TurnStartedAt

\* a hint is granted on a turn that is masked and has used a hint already
C11_Witness ==
    /\ last.op = "GetHint" /\ last.res.err = "nil"
    /\ last.pre.WordMasked = TRUE
    /\ last.pre.HintsUsed = 1
    /\ last.res.hint.content = "etymology"
    /\ engine.HintsUsed = 2

\* C21: RevealWord and UnmaskWord on a turn with a word succeed, expired turn and used-up
\* hint budget included, leave the word unmasked and change neither the word, the hint counter
\* nor the start of the turn; a further call of either leaves the engine exactly as it is.
C21_RevealIsIdempotent ==
    (last.op \in {"RevealWord", "UnmaskWord"} /\ last.pre.CurrentWord # NoWord) =>
        /\ last.res.err = "nil"
        /\ engine.WordMasked = FALSE
        /\ engine = [last.pre EXCEPT !.WordMasked = FALSE]
        /\ last.op = "UnmaskWord" => last.res.text = last.pre.CurrentWord[1].Word
        /\ RevealWord(engine).g = engine /\ RevealWord(engine).err = "nil"
        /\ UnmaskWord(engine).g = engine

\* the word is revealed a second time, on a turn that has expired with its hint budget used up
C21_Witness ==
    /\ last.op = "RevealWord" /\ last.res.err = "nil"
    /\ last.pre.WordMasked = FALSE
    /\ last.pre.HintsUsed = MaxHints
    /\ Elapsed(last.pre, last.at) > TurnTimeout
    /\ engine = last.pre

(***************************************************************************)
(* Properties of the service.                                              *)
(***************************************************************************)
\* the session has an open turn: its engine holds a current word and the start time of a turn
OpenTurn == activeGames /\ engine.CurrentWord # NoWord /\ engine.TurnStartedAt # NoTime

\* the events of a type that have been emitted
EventsOfType(eventType) == {i \in 1..Len(eventChan) : eventChan[i].Type = eventType}

\* goroutine p is inside a call of op
InCall(p, op) == proc[p].op = op /\ proc[p].pc \notin {"idle", "done"}

\* goroutine p has returned from a call of op
Returned(p, op) == proc[p].op = op /\ proc[p].pc = "done"

\* the error of a call that failed because a capability it needs failed
CapabilityFailures ==
    {"failed to get game", "failed to get word", "failed to start turn", "failed to update game"}

\* C2: of the MakeAttempt calls that run concurrently on an active session with the correct
\* spelling of the word of the turn, exactly one is the winning transition: two calls in
\* flight at once never both have credited the turn.
C2_OneWinnerPerTurn ==
    \A p, q \in Procs :
        (p # q /\ InCall(p, "MakeAttempt") /\ InCall(q, "MakeAttempt"))
            => ~(proc[p].pc = "emit" /\ proc[p].isCorrect /\ proc[q].pc = "emit" /\ proc[q].isCorrect)

\* C12: the roster of a session never holds more players than settings.MaxPlayers, whatever
\* the interleaving of JoinGame calls: a JoinGame that finds the session full fails with
\* ErrGameFull, and concurrent calls competing for one free seat admit at most one player.
C12_RosterWithinMaxPlayers ==
    /\ db.status # "none" => Len(db.players) <= db.settings.MaxPlayers
    /\ \A p \in Procs :
        (Returned(p, "JoinGame") /\ proc[p].err = "ErrGameFull")
            => Len(db.players) = db.settings.MaxPlayers

\* the errors of a MakeAttempt or GetHint call that failed before or apart from the check of
\* the turn owner
TurnCallFailures ==
    {"failed to get game", "ErrInvalidGameState", "ErrGameNotFound", "failed to validate attempt",
     "failed to get hint", "failed to update game"}

\* C13: in an active session a MakeAttempt or GetHint call of a player who is not the owner of
\* the current turn is rejected with the not-player's-turn error, and no attempt or hint event
\* of a player who is not the owner is emitted.
C13_OnlyTurnOwnerActs ==
    /\ \A p \in Procs :
        (/\ Returned(p, "MakeAttempt") \/ Returned(p, "GetHint")
         /\ proc[p].game.status = "active"
         /\ proc[p].playerID # db.current_player
         /\ proc[p].err \notin TurnCallFailures)
            => proc[p].err = "ErrNotPlayerTurn"
    /\ \A i \in 1..Len(emitted) :
        emitted[i].Type \in {"attempt_succeeded", "attempt_failed", "hint_requested"}
            => emitted[i].PlayerID = db.current_player

\* the step by which goroutine p begins a call
Begins(p) == proc'[p].calls = proc[p].calls + 1

\* the step by which a call of goroutine p returns err
Returns(p, err) == proc'[p] # proc[p] /\ proc'[p].pc = "done" /\ proc'[p].err = err

\* C14: a JoinGame or StartGame call on a session that is not waiting, and a MakeAttempt or
\* GetHint call on a session that is not active, returns ErrInvalidGameState (unless the store
\* fails to read the session), and a call that returns ErrInvalidGameState has left the
\* status and the roster, the registry, the turn of the engine and the events as they were.
C14_InvalidStateHasNoEffect ==
    [][\A p \in Procs :
        /\ (/\ Begins(p)
            /\ \/ proc'[p].op \in {"JoinGame", "StartGame"} /\ db.status \notin {"none", "waiting"}
               \/ proc'[p].op \in {"MakeAttempt", "GetHint"} /\ db.status \notin {"none", "active"})
              => (Returns(p, "ErrInvalidGameState") \/ Returns(p, "failed to get game"))
        /\ Returns(p, "ErrInvalidGameState")
              => (/\ Begins(p)
                  /\ UNCHANGED <<db, activeGames, engine, eventChan, emitted, received>>)
    ]_vars

\* a StartGame call on a session that is active, has an open turn and has emitted an event
\* has returned ErrInvalidGameState
C14_Witness ==
    \E p \in Procs :
        /\ Returned(p, "StartGame") /\ proc[p].err = "ErrInvalidGameState"
        /\ db.status = "active" /\ OpenTurn /\ emitted # <<>>

\* the errors of a CreateGame or StartGame call one of whose setup steps failed: the INSERT
\* of the session, the fetch of the first word, the dictionary lookup of StartTurn, the UPDATE
\* to active
SetupFailures ==
    {"failed to create game", "failed to get word", "failed to start turn", "failed to update game"}

\* C15: a CreateGame or StartGame call that returns because a setup step failed has aborted
\* entirely: the step by which it returns adds no registry entry, changes no row and emits no
\* event, and it leaves no turn open in a session that is not active.
C15_SetupFailureAborts ==
    [][\A p \in Procs : \A err \in SetupFailures :
        (Returns(p, err) /\ proc'[p].op \in {"CreateGame", "StartGame"})
            => (/\ activeGames' = activeGames
                /\ db' = db
                /\ emitted' = emitted
                /\ db'.status # "active" => ~OpenTurn')
    ]_vars

\* the next step of goroutine p stores an engine in activeGames: line 237 of CreateGame,
\* line 314 of StartGame when its lookup finds no engine
WritesActiveGames(p) ==
    \/ proc[p].op = "CreateGame" /\ proc[p].pc = "register"
    \/ proc[p].op = "StartGame" /\ proc[p].pc = "turn" /\ ~activeGames

\* the next step of goroutine p looks an engine up in activeGames: line 311 of StartGame,
\* line 354 of MakeAttempt, line 490 of GetHint
ReadsActiveGames(p) ==
    \/ proc[p].op = "StartGame" /\ proc[p].pc = "turn"
    \/ proc[p].op = "MakeAttempt" /\ proc[p].pc = "validate"
    \/ proc[p].op = "GetHint" /\ proc[p].pc = "hint"

\* C16: the registry is safe under concurrent access: no goroutine is about to store an
\* engine in activeGames while another goroutine is about to read or write the map, so no
\* two calls register an engine for one id and no access to the map races with a write.
C16_RegistryAccessSerialized ==
    \A p, q \in Procs :
        p # q => ~(WritesActiveGames(p) /\ (WritesActiveGames(q) \/ ReadsActiveGames(q)))

\* s can be obtained from t by leaving elements out
RECURSIVE IsSubSeq(_, _)
IsSubSeq(s, t) ==
    IF s = <<>> THEN TRUE
    ELSE IF t = <<>> THEN FALSE
    ELSE IF Head(s) = Head(t) THEN IsSubSeq(Tail(s), Tail(t))
    ELSE IsSubSeq(s, Tail(t))

\* C17: events are delivered in the order of their emission and as they were emitted: what a
\* subscriber has received from Events() is the events emitted, some left out, in the order
\* in which emitEvent sent them.
C17_EventsReceivedInOrder ==
    \A c \in Subscribers : IsSubSeq(received[c].events, emitted)

\* the subscriber has received the events of two players who joined, one after the other
C17_Witness ==
    \E i, j \in 1..Len(received["s1"].events) :
        /\ i < j
        /\ received["s1"].events[i].Type = "player_joined"
        /\ received["s1"].events[j].Type = "player_joined"
        /\ received["s1"].events[i].PlayerID # received["s1"].events[j].PlayerID

\* the events sent after subscriber c connected that have been taken from the channel
TakenSince(c) == (received[c].from + 1) .. (Len(emitted) - Len(eventChan))

\* C18: every session has its own stream, fanned out to its subscribers: a connected
\* subscriber of session S has received only events of S, each at most once and in order,
\* and has received every event of S that was sent after it connected and has left the channel.
C18_OwnStreamPerSession ==
    \A c \in Subscribers :
        received[c].state = "open" =>
            /\ \A j \in 1..Len(received[c].events) : received[c].events[j].GameID = SubscribedTo(c)
            /\ IsSubSeq(received[c].events, emitted)
            /\ \A i \in TakenSince(c) :
                  emitted[i].GameID = SubscribedTo(c) => InSeq(emitted[i], received[c].events)

\* C19: the event channel applies back-pressure: it never holds more than its capacity, a
\* call that emits while it is full waits, nothing that was sent is dropped or overwritten
\* (what the subscriber took and what the channel holds are the events sent, in order), and
\* a waiting call completes once the subscriber, while connected, takes events.
C19_ProducerBackPressure ==
    /\ [](Len(eventChan) <= EventChanCap)
    /\ [](\A p \in Procs :
            (proc[p].pc = "emit" /\ Len(eventChan) = EventChanCap) => ~ENABLED EmitEvent(p))
    /\ [](received["s1"].events \o eventChan = emitted)
    /\ \A p \in Procs :
          (proc[p].pc = "emit" /\ received["s1"].state = "open")
              ~> (proc[p].pc = "done" \/ received["s1"].state = "closed")

\* a call is waiting to emit on a full channel while the subscriber is connected
C19_Witness ==
    /\ proc[1].pc = "emit"
    /\ Len(eventChan) = EventChanCap
    /\ received["s1"].state = "open"

\* the events of the attempts MakeAttempt has accepted, in the order of their emission
AcceptedAttempts ==
    SelectSeq(emitted, LAMBDA e : e.GameID = GameID /\ e.Type \in {"attempt_succeeded", "attempt_failed"})

\* C20: every attempt MakeAttempt has accepted is in the attempt history of the session, in
\* the order of submission, with its text, the word of the turn at submission and its verdict.
C20_AttemptsAreRecorded ==
    /\ Len(db.spelling_attempts) = Len(AcceptedAttempts)
    /\ \A i \in 1..Len(AcceptedAttempts) :
        /\ db.spelling_attempts[i].player_id = AcceptedAttempts[i].PlayerID
        /\ db.spelling_attempts[i].text = AcceptedAttempts[i].attempt
        /\ db.spelling_attempts[i].is_correct = AcceptedAttempts[i].correct
        /\ db.spelling_attempts[i].word = engine.CurrentWord[1].Word

\* C3: StartGame calls on one waiting session are serialized: exactly one of two concurrent
\* calls succeeds and opens the first turn, so at most one game_started event is ever emitted.
C3_OneStartPerSession == Cardinality(EventsOfType("game_started")) <= 1

\* C4: whenever no call is in progress, the session has an open turn if and only if its
\* status is active.
C4_OpenTurnIffActive ==
    (\A p \in Procs : ~InCall(p, proc[p].op)) => (OpenTurn <=> db.status = "active")

\* C5: a StartGame call on a waiting session with fewer players than MinPlayers, whose
\* capabilities all answer, fails with the not-enough-players error and leaves the status
\* waiting, no turn open and no game_started event.
C5_StartNeedsMinPlayers ==
    \A p \in Procs :
        (/\ Returned(p, "StartGame")
         /\ proc[p].game.status # "none"
         /\ Len(proc[p].game.players) < proc[p].game.settings.MinPlayers
         /\ proc[p].err \notin CapabilityFailures \cup {"ErrInvalidGameState"})
            => /\ proc[p].err = "ErrNotEnoughPlayers"
               /\ db.status = "waiting"
               /\ ~OpenTurn
               /\ EventsOfType("game_started") = {}

C32_RequestHintCounted ==
    (last.op = "RequestHint" /\ last.pre.CurrentWord # NoWord) =>
        /\ last.pre.HintsUsed >= 3 => last.res.err # "nil"
        /\ last.res.err = "nil" => engine.HintsUsed = last.pre.HintsUsed + 1

(***************************************************************************)
(* Properties of packages modes and ranking.                               *)
(***************************************************************************)
\* C22: CalculateScore returns correct x 100, times 1.5 in rapid-fire mode exactly when the
\* average time is below 5.0, times 1.3 in total-game mode exactly when correct / total >= 0.9,
\* with no multiplier in any other mode, the product truncated toward zero; rapid-fire
\* (5, 6, 3.0) gives 750, total-game (9, 10, 7.0) gives 1170, round-robin (5, 7, 6.0) gives 500.
C22_ScoreByMode ==
    (calc.fn = "CalculateScore" /\ calc.called) =>
        LET base == calc.x * 100
            fast == calc.z < 50
            accurate == calc.y > 0 /\ 10 * calc.x >= 9 * calc.y
            Truncated(tenths) == 10 * calc.out <= base * tenths /\ base * tenths < 10 * (calc.out + 1)
        IN  /\ calc.mode = "rapid_fire" => IF fast THEN Truncated(15) ELSE calc.out = base
            /\ calc.mode = "total_game" => IF accurate THEN Truncated(13) ELSE calc.out = base
            /\ calc.mode \notin {"rapid_fire", "total_game"} => calc.out = base
            /\ (calc.mode = "rapid_fire" /\ calc.x = 5 /\ calc.y = 6 /\ calc.z = 30) => calc.out = 750
            /\ (calc.mode = "total_game" /\ calc.x = 9 /\ calc.y = 10 /\ calc.z = 70) => calc.out = 1170
            /\ (calc.mode = "round_robin" /\ calc.x = 5 /\ calc.y = 7 /\ calc.z = 60) => calc.out = 500

\* a total game with nine of ten attempts correct has been scored 1170
C22_Witness ==
    /\ calc.fn = "CalculateScore" /\ calc.called
    /\ calc.mode = ModeTotalGame /\ calc.x = 9 /\ calc.y = 10 /\ calc.z = 70 /\ calc.out = 1170

\* C23: CalculatePoints returns 0 for every placement other than 1, 2 or 3, and otherwise the
\* base points (30, 15, 5) times (1 + 0.1 x max(0, players - 2)) times 1.5 for a tournament,
\* rounded to the nearest integer; (1, 8, tournament) gives 72 and (3, 12, no tournament) 10.
C23_PointsOfPlacement ==
    (calc.fn = "CalculatePoints" /\ calc.called) =>
        LET base == IF calc.x = 1 THEN 30 ELSE IF calc.x = 2 THEN 15 ELSE 5
            extra == IF calc.y > 2 THEN calc.y - 2 ELSE 0
            \* twenty times the product
            product20 == base * (10 + extra) * (IF calc.flag THEN 3 ELSE 2)
        IN  /\ calc.x \notin {1, 2, 3} => calc.out = 0
            /\ calc.x \in {1, 2, 3} => (20 * calc.out - product20) \in (0 - 10)..10
            /\ (calc.x = 1 /\ calc.y = 8 /\ calc.flag) => calc.out = 72
            /\ (calc.x = 3 /\ calc.y = 12 /\ ~calc.flag) => calc.out = 10

\* the winner of a tournament of eight has been given 72 points
C23_Witness ==
    calc.fn = "CalculatePoints" /\ calc.called /\ calc.x = 1 /\ calc.y = 8 /\ calc.flag /\ calc.out = 72

\* C24: CalculateNewRating returns current rating + points earned clamped to [0, 1200], for
\* every current rating and every positive or negative points value; so after any sequence of
\* rating updates the rating stays within [0, 1200].
C24_RatingClamped ==
    (calc.fn = "CalculateNewRating" /\ calc.called) =>
        LET sum == calc.x + calc.y
        IN  /\ sum < 0 => calc.out = 0
            /\ sum > 1200 => calc.out = 1200
            /\ sum \in 0..1200 => calc.out = sum
            /\ calc.out \in 0..1200
            /\ calc.flag => calc.x \in 0..1200

\* a rating that an earlier update held at 1200 has been held at 0 by a loss
C24_Witness ==
    /\ calc.fn = "CalculateNewRating" /\ calc.called /\ calc.flag
    /\ calc.x = MaxRating /\ calc.x + calc.y < 0 /\ calc.out = 0

\* C25: GetRankByPoints maps every point total in [0, 1200] to exactly one rank whose
\* [MinPoints, MaxPoints] range contains it (the eight ranges are contiguous and do not
\* overlap, Gray from 0 up to Red ending at 1200), and every total outside [0, 1200] to Gray.
C25_OneRankPerTotal ==
    (calc.fn = "GetRankByPoints" /\ calc.called) =>
        LET holding == {i \in 1..Len(Ranks) : Ranks[i].MinPoints <= calc.x /\ calc.x <= Ranks[i].MaxPoints}
        IN  /\ calc.x \in 0..1200 => Cardinality(holding) = 1 /\ \A i \in holding : calc.rank = Ranks[i]
            /\ calc.x \notin 0..1200 => calc.rank.Color = "Gray"
            /\ Len(Ranks) = 8
            /\ Ranks[1].Color = "Gray" /\ Ranks[1].MinPoints = 0
            /\ Ranks[8].Color = "Red" /\ Ranks[8].MaxPoints = 1200
            /\ \A i \in 1..8 : Ranks[i].MinPoints <= Ranks[i].MaxPoints
            /\ \A i \in 1..7 : Ranks[i + 1].MinPoints = Ranks[i].MaxPoints + 1

\* the total 1200 has been given the rank Red
C25_Witness ==
    calc.fn = "GetRankByPoints" /\ calc.called /\ calc.x = MaxRating /\ calc.rank.Color = "Red"

\* C26: ValidateSettings rejects settings exactly when a bound is violated: word level outside
\* 1..10 in any mode; round robin with MaxPlayers outside 2..32 or MaxRounds < 1; rapid fire
\* with MaxPlayers other than 2 or a time limit outside 1..30 minutes; total game with
\* MaxPlayers outside 2..8 or a time limit outside 5..60 minutes; all other settings pass.
C26_RejectsExactlyViolations ==
    (calc.fn = "ValidateSettings" /\ calc.called) =>
        LET st == calc.settings
            violated ==
                \/ st.WordLevel \notin 1..10
                \/ st.Mode = "round_robin" /\ (st.MaxPlayers \notin 2..32 \/ st.MaxRounds < 1)
                \/ st.Mode = "rapid_fire" /\ (st.MaxPlayers # 2 \/ st.TimeLimit \notin 60..1800)
                \/ st.Mode = "total_game" /\ (st.MaxPlayers \notin 2..8 \/ st.TimeLimit \notin 300..3600)
        IN  (calc.err # "nil") <=> violated

\* rapid-fire settings on their bounds (two players, thirty minutes, level ten) have passed
C26_Witness ==
    /\ calc.fn = "ValidateSettings" /\ calc.called /\ calc.err = "nil"
    /\ calc.settings.Mode = ModeRapidFire /\ calc.settings.MaxPlayers = 2
    /\ calc.settings.TimeLimit = 30 * Minute /\ calc.settings.WordLevel = 10

\* C39: for every game mode (round robin, rapid fire, total game) the settings returned by
\* DefaultSettings(mode) are settings of that mode and are accepted by ValidateSettings.
C39_DefaultsAreValid ==
    (calc.fn = "DefaultSettings" /\ calc.called
        /\ calc.mode \in {"round_robin", "rapid_fire", "total_game"}) =>
        /\ calc.settings.Mode = calc.mode
        /\ calc.err = "nil"

\* the default settings of round robin have been validated
C39_Witness ==
    /\ calc.fn = "DefaultSettings" /\ calc.called /\ calc.mode = ModeRoundRobin
    /\ calc.settings.MaxPlayers = 32 /\ calc.settings.MaxRounds = 10 /\ calc.err = "nil"

(***************************************************************************)
(* Properties of the creation of a session and of the calls after it.      *)
(***************************************************************************)
\* C27: a CreateGame request whose settings violate the player-count or word-level (1..10)
\* bounds fails: no session is persisted or registered for it, no game_created event is
\* emitted, and the call does not return nil.
C27_InvalidSettingsRejected ==
    \A p \in Procs :
        (/\ proc[p].op = "CreateGame"
         /\ \/ proc[p].game.settings.MaxPlayers \notin 2..32
            \/ proc[p].game.settings.WordLevel \notin 1..10) =>
            /\ db.status = "none"
            /\ ~activeGames
            /\ \A i \in 1..Len(emitted) : emitted[i].Type # "game_created"
            /\ proc[p].pc = "done" => proc[p].err # "nil"

\* C28: a session whose creation succeeded is waiting with no further request: a JoinGame
\* call for a session that CreateGame has announced, and that has not been started, is not
\* rejected for the status of the session.
C28_CreatedSessionAcceptsJoins ==
    \A p \in Procs :
        (/\ Returned(p, "JoinGame")
         /\ \E i \in 1..Len(emitted) : emitted[i].Type = "game_created"
         /\ \A i \in 1..Len(emitted) : emitted[i].Type # "game_started") =>
            proc[p].err # "ErrInvalidGameState"

\* C29: a successful JoinGame returns the session with the joining player in its roster: the
\* roster of the returned game is the roster of the session after the call, the new player
\* last in it, after the players who joined earlier.
C29_ReturnedRosterHasJoiner ==
    \A p \in Procs :
        (Returned(p, "JoinGame") /\ proc[p].err = "nil") =>
            LET roster == proc[p].game.players
            IN  /\ roster # <<>>
                /\ roster[Len(roster)] = proc[p].playerID
                /\ roster = db.players

\* C30: every hint kind the service can select is served by the dictionary: a GetHint call of
\* the service on an open turn with hints remaining does not fail for the kind of the hint
\* (a failed call leaves the engine as it was, so the turn is the one the call found).
C30_SelectedHintKindsServed ==
    \A p \in Procs :
        (Returned(p, "GetHint") /\ OpenTurn /\ engine.HintsUsed < MaxHints) =>
            proc[p].err # "failed to get hint"

(***************************************************************************)
(* Properties of the turns of an active session.                           *)
(***************************************************************************)
\* C31: the hint budget of a turn is the hints-per-turn setting of the session: in a session
\* configured with h hints per turn at most h hints have been granted in the open turn.
C31_BudgetIsConfigured ==
    (db.status = "active" /\ OpenTurn) => engine.HintsUsed <= db.settings.HintsAllowed

\* C33: after an attempt has been accepted in an active session the session progresses: the
\* turn is with a player of the roster, and a word that has been spelled correctly is not
\* scored a second time (no more attempts have succeeded than turns have been opened).
C33_AcceptedAttemptProgresses ==
    \A p \in Procs :
        (Returned(p, "MakeAttempt") /\ proc[p].err = "nil") =>
            /\ db.players # <<>> => InSeq(db.current_player, db.players)
            /\ Cardinality({i \in 1..Len(emitted) : emitted[i].Type = "attempt_succeeded"})
                   <= Cardinality({i \in 1..Len(emitted) : emitted[i].Type = "game_started"})

\* C34: an active session becomes finished when its completion predicate holds after an
\* attempt: in elimination mode, when at most one player who is not eliminated remains (no
\* player of the roster is ever eliminated), the session is finished once an attempt has
\* been accepted.
C34_CompleteSessionFinishes ==
    \A p \in Procs :
        (/\ Returned(p, "MakeAttempt") /\ proc[p].err = "nil"
         /\ db.settings.Elimination /\ Len(db.players) <= 1) =>
            db.status = "finished"

C38_OneEventPerSuccess ==
    [][/\ \A p \in Procs :
            Returns(p, "nil") =>
                /\ Len(emitted') = Len(emitted) + 1
                /\ SubSeq(emitted', 1, Len(emitted)) = emitted
                /\ emitted'[Len(emitted')].GameID = "g1"
                /\ emitted'[Len(emitted')].Type =
                      CASE proc[p].op = "CreateGame"  -> "game_created"
                        [] proc[p].op = "JoinGame"    -> "player_joined"
                        [] proc[p].op = "StartGame"   -> "game_started"
                        [] proc[p].op = "GetHint"     -> "hint_requested"
                        [] proc[p].op = "MakeAttempt" ->
                              IF EqualFold(proc[p].attempt, engine.CurrentWord[1].Word)
                              THEN "attempt_succeeded" ELSE "attempt_failed"
       /\ emitted' # emitted => \E p \in Procs : Returns(p, "nil")
      ]_vars

\* an incorrect attempt has been accepted and attempt_failed is the last event emitted
C38_Witness ==
    /\ Returned(1, "MakeAttempt") /\ proc[1].err = "nil" /\ ~proc[1].isCorrect
    /\ emitted # <<>> /\ emitted[Len(emitted)].Type = "attempt_failed"

\* C36: while the word of a turn is masked no output that players observe contains its
\* spelling: no event emitted carries the word of the open, masked turn, and a game read by
\* GetGame whose masked flag is set carries no word.
C36_MaskedWordNotInOutputs ==
    /\ (OpenTurn /\ engine.WordMasked) =>
            \A i \in 1..Len(emitted) :
                emitted[i].word = NoWord \/ emitted[i].word[1].Word # engine.CurrentWord[1].Word
    /\ \A p \in Procs : proc[p].game.WordMasked => proc[p].game.CurrentWord = NoWord

\* C37: a GetGame that runs concurrently with StartTurn observes a consistent snapshot of
\* the turn: the word, the masked flag and the start time it returns belong to one turn, so
\* a game that carries the word of a turn carries the flag and the start time of a started
\* turn (no operation of the service unmasks a word).
C37_SnapshotOfOneTurn ==
    \A p \in Procs :
        (Returned(p, "GetGame") /\ proc[p].err = "nil" /\ proc[p].game.CurrentWord # NoWord) =>
            proc[p].game.WordMasked /\ proc[p].game.TurnStartedAt # NoTime

=============================================================================
